---- MODULE Spec2Model ----
(***************************************************************************)
(* heixconverter: the HEIX image wrapper (heixconverter/__init__.py) and   *)
(* the command line front end CLI (main.py) that fans a directory listing  *)
(* out over a thread pool.                                                 *)
(*                                                                         *)
(* Two specifications share the variables:                                 *)
(*   SpecHEIX  one HEIX object: its constructor, then calls of _save_as,   *)
(*             as_jpeg, as_jpg and as_png;                                 *)
(*   SpecCLI   one call of CLI.run with its pool workers interleaved.      *)
(*                                                                         *)
(* A file name is a sequence of one-character strings, so that the glob    *)
(* pattern and Path.suffix are computed on the characters.                 *)
(***************************************************************************)
EXTENDS Integers, Sequences, FiniteSets, TLC

VARIABLES
  \* ---- one HEIX object (SpecHEIX)
  hpath,      \* the path handed to HEIX(path): [name, kind, content]
  hpc,        \* "new" before __init__, then "ready" or "raised"
  hexc,       \* what __init__ raised: [type, msg]
  image,      \* self.image: "unset" or the mode of the decoded image
  decoded,    \* the names passed to pyheif.read, in order
  written,    \* the files Image.save wrote, in order: [name, fmt, mode]
  lastCall,   \* the last _save_as call: [via, name, fmt, exc]
  ncalls,     \* how many save calls were made on the object
  \* ---- one CLI.run call (SpecCLI)
  srcKind,    \* what args.src is on disk: "missing", "file" or "dir"
  listing,    \* the entries directly inside the source directory
  dstExists,  \* whether the output directory exists
  mkdirCalls, \* how many times run called dst_dir.mkdir
  fmt,        \* args.format
  pc,         \* where run is: "start", "checked", "pool", "done", "raised"
  runExc,     \* the exception that left run, "none" if none
  heix_images,\* the entries the glob found
  toSubmit,   \* the entries of heix_images not yet submitted
  submitted,  \* per entry, how many futures were submitted for it
  futures,    \* per entry, its future: [state, exc]
  collected,  \* the entries whose future as_completed has yielded
  errors,     \* the errors list
  pbar,       \* how far the progress bar has advanced
  outDir,     \* the files the workers wrote into the output directory
  wdecoded    \* the names the workers passed to pyheif.read

hvars ==
  <<hpath, hpc, hexc, image, decoded, written, lastCall, ncalls>>

cvars ==
  <<srcKind, listing, dstExists, mkdirCalls, fmt, pc, runExc, heix_images,
    toSubmit, submitted, futures, collected, errors, pbar, outDir, wdecoded>>

vars ==
  <<hpath, hpc, hexc, image, decoded, written, lastCall, ncalls,
    srcKind, listing, dstExists, mkdirCalls, fmt, pc, runExc, heix_images,
    toSubmit, submitted, futures, collected, errors, pbar, outDir, wdecoded>>

(***************************************************************************)
(* Bounds of the model.                                                    *)
(***************************************************************************)
\* the most save calls made on one HEIX object
MaxSaves ==
  2

\* the most entries in the source directory
MaxEntries ==
  3

(***************************************************************************)
(* Paths and the file system.                                              *)
(***************************************************************************)
NoExc ==
  [type |-> "none", msg |-> "none"]

\* a path on disk: kind is "missing", "dir" or "file"; content is what
\* pyheif finds in a regular file: a decodable image of mode RGB or RGBA,
\* or "corrupt" (pyheif.read raises HeifError)
Entry(name, kind, content) ==
  [name |-> name, kind |-> kind, content |-> content]

n_a_heic == <<"a", ".", "h", "e", "i", "c">>
n_b_heif == <<"b", ".", "h", "e", "i", "f">>
n_c_heic == <<"c", ".", "h", "e", "i", "c">>
n_d_heic == <<"d", ".", "h", "e", "i", "c">>
n_e_jpg  == <<"e", ".", "j", "p", "g">>
n_f_HEIC == <<"f", ".", "H", "E", "I", "C">>
n_dot_heic == <<".", "h", "e", "i", "c">>
n_g_jpg  == <<"g", ".", "j", "p", "g">>
n_h_heic == <<"h", ".", "h", "e", "i", "c">>

exists(p) ==
  p.kind # "missing"

is_file(p) ==
  p.kind = "file"

\* str.rfind('.') on the 1-based sequence; 0 when there is no dot
rfind_dot(name) ==
  IF \E i \in 1..Len(name) : name[i] = "."
  THEN CHOOSE i \in 1..Len(name) :
         /\ name[i] = "."
         /\ \A j \in (i+1)..Len(name) : name[j] # "."
  ELSE 0

\* pathlib's PurePath.suffix: the last dot and what follows it, unless the
\* dot is the first or the last character of the name
suffix(name) ==
  LET i == rfind_dot(name) IN
  IF 1 < i /\ i < Len(name) THEN SubSeq(name, i, Len(name)) ELSE <<>>

SupportedExtensions ==
  { <<".", "h", "e", "i", "c">>, <<".", "h", "e", "i", "f">> }

\* the keys of HEIX.SupportedFormats with their "transparency" flag
SupportedFormats ==
  [JPEG |-> [transparency |-> FALSE], PNG |-> [transparency |-> TRUE]]

(***************************************************************************)
(* HEIX.__init__: what the constructor raises, the image it stores and     *)
(* the files it hands to the decoder.                                      *)
(***************************************************************************)
\* a slip: the suffix test made before the is_file test
HEIX__init__suffix_first(p) ==
  IF ~ exists(p)
  THEN [exc |-> [type |-> "OSError", msg |-> "does not exist"],
        image |-> "unset", decoded |-> <<>>]
  ELSE IF suffix(p.name) \notin SupportedExtensions
  THEN [exc |-> [type |-> "ValueError", msg |-> "Unsupported image type"],
        image |-> "unset", decoded |-> <<>>]
  ELSE IF ~ is_file(p)
  THEN [exc |-> [type |-> "OSError", msg |-> "is not a file"],
        image |-> "unset", decoded |-> <<>>]
  ELSE IF p.content = "corrupt"
  THEN [exc |-> [type |-> "HeifError", msg |-> "pyheif.read"],
        image |-> "unset", decoded |-> <<p.name>>]
  ELSE [exc |-> NoExc, image |-> p.content, decoded |-> <<p.name>>]

HEIX__init__(p) ==
  IF ~ exists(p)
  THEN [exc |-> [type |-> "OSError", msg |-> "does not exist"],
        image |-> "unset", decoded |-> <<>>]
  ELSE IF ~ is_file(p)
  THEN [exc |-> [type |-> "OSError", msg |-> "is not a file"],
        image |-> "unset", decoded |-> <<>>]
  ELSE IF suffix(p.name) \notin SupportedExtensions
  THEN [exc |-> [type |-> "ValueError", msg |-> "Unsupported image type"],
        image |-> "unset", decoded |-> <<>>]
  ELSE IF p.content = "corrupt"
  THEN [exc |-> [type |-> "HeifError", msg |-> "pyheif.read"],
        image |-> "unset", decoded |-> <<p.name>>]
  ELSE [exc |-> NoExc, image |-> p.content, decoded |-> <<p.name>>]

(***************************************************************************)
(* HEIX._save_as(name, fmt) on an object whose self.image has mode img and *)
(* after the files wr were written: the exception, the files written and   *)
(* self.image afterwards.                                                  *)
(***************************************************************************)
\* Image.convert("RGB"): a new image of mode RGB
convert_RGB(img) ==
  "RGB"

\* a slip: the converted image is stored back into self.image
_save_as_in_place(img, wr, name, f) ==
  IF f \notin DOMAIN SupportedFormats
  THEN [exc |-> "ValueError", written |-> wr, image |-> img]
  ELSE IF ~ SupportedFormats[f].transparency /\ img = "RGBA"
  THEN [exc |-> "none",
        written |-> Append(wr, [name |-> name, fmt |-> f,
                                mode |-> convert_RGB(img)]),
        image |-> convert_RGB(img)]
  ELSE [exc |-> "none",
        written |-> Append(wr, [name |-> name, fmt |-> f, mode |-> img]),
        image |-> img]

_save_as(img, wr, name, f) ==
  IF f \notin DOMAIN SupportedFormats
  THEN [exc |-> "ValueError", written |-> wr, image |-> img]
  ELSE IF ~ SupportedFormats[f].transparency /\ img = "RGBA"
  THEN [exc |-> "none",
        written |-> Append(wr, [name |-> name, fmt |-> f,
                                mode |-> convert_RGB(img)]),
        image |-> img]
  ELSE [exc |-> "none",
        written |-> Append(wr, [name |-> name, fmt |-> f, mode |-> img]),
        image |-> img]

as_jpeg(img, wr, name) ==
  _save_as(img, wr, name, "JPEG")

as_jpg(img, wr, name) ==
  _save_as(img, wr, name, "JPEG")

as_png(img, wr, name) ==
  _save_as(img, wr, name, "PNG")

(***************************************************************************)
(* SpecHEIX: one HEIX object.                                              *)
(***************************************************************************)
\* the paths HEIX(path) is tried on
HPaths ==
  { Entry(n_a_heic, "missing", "none"),
    Entry(n_g_jpg,  "missing", "none"),
    Entry(n_d_heic, "dir",     "none"),
    Entry(n_g_jpg,  "dir",     "none"),
    Entry(n_a_heic, "file",    "RGB"),
    Entry(n_b_heif, "file",    "RGBA"),
    Entry(n_c_heic, "file",    "corrupt"),
    Entry(n_e_jpg,  "file",    "RGB"),
    Entry(n_f_HEIC, "file",    "RGBA"),
    Entry(n_dot_heic, "file",  "RGB") }

\* the names images are saved under
OutNames ==
  { "out1", "out2" }

\* the values of fmt passed to _save_as, in the order they are tried
Formats ==
  << "jpg", "jpeg", "png", "JPEG", "PNG", "gif" >>

NoCall ==
  [via |-> "none", name |-> "none", fmt |-> "none", exc |-> "none"]

CLIIdle ==
  /\ srcKind = "missing"
  /\ listing = {}
  /\ dstExists = FALSE
  /\ mkdirCalls = 0
  /\ fmt = "none"
  /\ pc = "idle"
  /\ runExc = "none"
  /\ heix_images = {}
  /\ toSubmit = {}
  /\ submitted = <<>>
  /\ futures = <<>>
  /\ collected = {}
  /\ errors = <<>>
  /\ pbar = 0
  /\ outDir = {}
  /\ wdecoded = <<>>

HEIXIdle ==
  /\ hpath = Entry(<<>>, "missing", "none")
  /\ hpc = "idle"
  /\ hexc = NoExc
  /\ image = "unset"
  /\ decoded = <<>>
  /\ written = <<>>
  /\ lastCall = NoCall
  /\ ncalls = 0

InitHEIX ==
  /\ hpath \in HPaths
  /\ hpc = "new"
  /\ hexc = NoExc
  /\ image = "unset"
  /\ decoded = <<>>
  /\ written = <<>>
  /\ lastCall = NoCall
  /\ ncalls = 0
  /\ CLIIdle

\* HEIX(path)
HEIX_new ==
  /\ hpc = "new"
  /\ LET r == HEIX__init__(hpath) IN
       /\ hexc' = r.exc
       /\ image' = r.image
       /\ decoded' = decoded \o r.decoded
       /\ hpc' = IF r.exc = NoExc THEN "ready" ELSE "raised"
  /\ UNCHANGED <<hpath, written, lastCall, ncalls>>
  /\ UNCHANGED cvars

\* the effect of one save call whose result is r
SaveCall(via, name, f, r) ==
  /\ hpc = "ready"
  /\ ncalls < MaxSaves
  /\ written' = r.written
  /\ image' = r.image
  /\ lastCall' = [via |-> via, name |-> name, fmt |-> f, exc |-> r.exc]
  /\ ncalls' = ncalls + 1
  /\ UNCHANGED <<hpath, hpc, hexc, decoded>>
  /\ UNCHANGED cvars

\* heix._save_as(name, f)
call_save_as ==
  \E i \in DOMAIN Formats, name \in OutNames :
    SaveCall("_save_as", name, Formats[i],
             _save_as(image, written, name, Formats[i]))

\* heix.as_jpeg(name)
call_as_jpeg ==
  \E name \in OutNames :
    SaveCall("as_jpeg", name, "JPEG", as_jpeg(image, written, name))

\* heix.as_jpg(name)
call_as_jpg ==
  \E name \in OutNames :
    SaveCall("as_jpg", name, "JPEG", as_jpg(image, written, name))

\* heix.as_png(name)
call_as_png ==
  \E name \in OutNames :
    SaveCall("as_png", name, "PNG", as_png(image, written, name))

NextHEIX ==
  \/ HEIX_new
  \/ call_save_as
  \/ call_as_jpeg
  \/ call_as_jpg
  \/ call_as_png

SpecHEIX ==
  InitHEIX /\ [][NextHEIX]_vars

(***************************************************************************)
(* SpecCLI: one call of CLI.run.                                           *)
(***************************************************************************)
\* the entries a source directory is filled from
DirEntries ==
  { Entry(n_a_heic, "file", "RGB"),
    Entry(n_b_heif, "file", "RGBA"),
    Entry(n_c_heic, "file", "corrupt"),
    Entry(n_d_heic, "dir",  "none"),
    Entry(n_e_jpg,  "file", "RGB"),
    Entry(n_f_HEIC, "file", "RGBA"),
    Entry(n_dot_heic, "file", "RGB"),
    Entry(n_h_heic, "file", "RGBA") }

\* the values of the FORMAT argument (argparse takes any string)
CLIFormats ==
  { "jpeg", "jpg", "png", "gif" }

\* fnmatch of a name against "*.hei[cf]": any characters, then ".hei" and
\* one of c, f (case-sensitive)
glob_match(name) ==
  /\ Len(name) >= 5
  /\ SubSeq(name, Len(name) - 4, Len(name) - 1) = <<".", "h", "e", "i">>
  /\ name[Len(name)] \in {"c", "f"}

\* src_dir.glob("*.hei[cf]"): the entries directly inside the directory
\* whose name matches, files and directories alike
glob(entries) ==
  { e \in entries : glob_match(e.name) }

\* the attributes a HEIX object has
HEIXAttributes ==
  { "SupportedExtensions", "SupportedFormats", "FormatConvertedMap",
    "path", "image", "_save_as", "as_jpeg", "as_jpg", "as_png" }

\* a slip: the output directory made before the source is validated
run_checks_mkdir_first(kind, dst) ==
  LET made == IF ~ dst THEN 1 ELSE 0 IN
  IF kind = "missing"
  THEN [exc |-> "OSError", dstExists |-> TRUE, mkdirCalls |-> made]
  ELSE IF kind # "dir"
  THEN [exc |-> "ValueError", dstExists |-> TRUE, mkdirCalls |-> made]
  ELSE [exc |-> "none", dstExists |-> TRUE, mkdirCalls |-> made]

\* run, from parse_args to the mkdir of the output directory: the
\* exception raised, whether the output directory exists afterwards and
\* the mkdir calls made
run_checks(kind, dst) ==
  IF kind = "missing"
  THEN [exc |-> "OSError", dstExists |-> dst, mkdirCalls |-> 0]
  ELSE IF kind # "dir"
  THEN [exc |-> "ValueError", dstExists |-> dst, mkdirCalls |-> 0]
  ELSE IF ~ dst
  THEN [exc |-> "none", dstExists |-> TRUE, mkdirCalls |-> 1]
  ELSE [exc |-> "none", dstExists |-> dst, mkdirCalls |-> 0]

\* a slip: the except branch drops the image instead of recording it
collect_swallow(exc, errs, bar, e) ==
  IF exc # "none"
  THEN [errors |-> errs, pbar |-> bar]
  ELSE [errors |-> errs, pbar |-> bar + 1]

\* the body of the as_completed loop for the future of entry e, whose
\* result() raised exc ("none": it returned)
collect(exc, errs, bar, e) ==
  IF exc # "none"
  THEN [errors |-> Append(errs, e.name), pbar |-> bar]
  ELSE [errors |-> errs, pbar |-> bar + 1]

InitCLI ==
  /\ srcKind \in {"missing", "file", "dir"}
  /\ listing \in { l \in SUBSET DirEntries : Cardinality(l) <= MaxEntries }
  /\ srcKind # "dir" => listing = {}
  /\ dstExists \in BOOLEAN
  /\ mkdirCalls = 0
  /\ fmt \in CLIFormats
  /\ pc = "start"
  /\ runExc = "none"
  /\ heix_images = {}
  /\ toSubmit = {}
  /\ submitted = <<>>
  /\ futures = <<>>
  /\ collected = {}
  /\ errors = <<>>
  /\ pbar = 0
  /\ outDir = {}
  /\ wdecoded = <<>>
  /\ HEIXIdle

\* run: the source checks and the mkdir of the output directory
run_validate ==
  /\ pc = "start"
  /\ LET r == run_checks(srcKind, dstExists) IN
       /\ runExc' = r.exc
       /\ dstExists' = r.dstExists
       /\ mkdirCalls' = mkdirCalls + r.mkdirCalls
       /\ pc' = IF r.exc = "none" THEN "checked" ELSE "raised"
  /\ UNCHANGED <<srcKind, listing, fmt, heix_images, toSubmit, submitted,
                 futures, collected, errors, pbar, outDir, wdecoded>>
  /\ UNCHANGED hvars

\* run: the glob, the progress bar and the empty errors list
run_glob ==
  /\ pc = "checked"
  /\ heix_images' = glob(listing)
  /\ toSubmit' = glob(listing)
  /\ submitted' = [e \in glob(listing) |-> 0]
  /\ errors' = <<>>
  /\ pbar' = 0
  /\ pc' = "pool"
  /\ UNCHANGED <<srcKind, listing, dstExists, mkdirCalls, fmt, runExc,
                 futures, collected, outDir, wdecoded>>
  /\ UNCHANGED hvars

\* run: pool.submit(self._worker, dst_dir, img, fmt) for the next image of
\* the comprehension (the glob yields the entries in no particular order)
run_submit ==
  /\ pc = "pool"
  /\ \E e \in toSubmit :
       /\ toSubmit' = toSubmit \ {e}
       /\ submitted' = [submitted EXCEPT ![e] = @ + 1]
       /\ futures' = futures @@ (e :> [state |-> "pending", exc |-> "none"])
  /\ UNCHANGED <<srcKind, listing, dstExists, mkdirCalls, fmt, pc, runExc,
                 heix_images, collected, errors, pbar, outDir, wdecoded>>
  /\ UNCHANGED hvars

\* _worker in a pool thread: HEIX(image_path)
worker_construct ==
  /\ \E e \in DOMAIN futures :
       /\ futures[e].state = "pending"
       /\ LET r == HEIX__init__(e) IN
            /\ wdecoded' = wdecoded \o r.decoded
            /\ futures' = [futures EXCEPT ![e] =
                 IF r.exc = NoExc
                 THEN [state |-> "constructed", exc |-> "none"]
                 ELSE [state |-> "finished", exc |-> r.exc.type]]
  /\ UNCHANGED <<srcKind, listing, dstExists, mkdirCalls, fmt, pc, runExc,
                 heix_images, toSubmit, submitted, collected, errors, pbar,
                 outDir>>
  /\ UNCHANGED hvars

\* _worker in a pool thread: the sleep, then heix_image.save_as(dst_dir, fmt);
\* HEIX has no attribute save_as, so the attribute lookup raises
worker_save ==
  /\ \E e \in DOMAIN futures :
       /\ futures[e].state = "constructed"
       /\ futures' = [futures EXCEPT ![e] =
            [state |-> "finished",
             exc |-> IF "save_as" \in HEIXAttributes
                     THEN "none" ELSE "AttributeError"]]
  /\ UNCHANGED <<srcKind, listing, dstExists, mkdirCalls, fmt, pc, runExc,
                 heix_images, toSubmit, submitted, collected, errors, pbar,
                 outDir, wdecoded>>
  /\ UNCHANGED hvars

\* run: one turn of the as_completed loop, entered once every image is
\* submitted, on a finished future not yet yielded
run_collect ==
  /\ pc = "pool"
  /\ toSubmit = {}
  /\ \E e \in DOMAIN futures :
       /\ e \notin collected
       /\ futures[e].state = "finished"
       /\ LET r == collect(futures[e].exc, errors, pbar, e) IN
            /\ errors' = r.errors
            /\ pbar' = r.pbar
       /\ collected' = collected \cup {e}
  /\ UNCHANGED <<srcKind, listing, dstExists, mkdirCalls, fmt, pc, runExc,
                 heix_images, toSubmit, submitted, futures, outDir, wdecoded>>
  /\ UNCHANGED hvars

\* run: as_completed is exhausted, the pool shuts down and run returns
run_return ==
  /\ pc = "pool"
  /\ toSubmit = {}
  /\ collected = DOMAIN futures
  /\ pc' = "done"
  /\ UNCHANGED <<srcKind, listing, dstExists, mkdirCalls, fmt, runExc,
                 heix_images, toSubmit, submitted, futures, collected, errors,
                 pbar, outDir, wdecoded>>
  /\ UNCHANGED hvars

NextCLI ==
  \/ run_validate
  \/ run_glob
  \/ run_submit
  \/ worker_construct
  \/ worker_save
  \/ run_collect
  \/ run_return

SpecCLI ==
  InitCLI /\ [][NextCLI]_vars

(***************************************************************************)
(* Properties.                                                             *)
(***************************************************************************)
HeifSuffixes ==
  { <<".", "h", "e", "i", "c">>, <<".", "h", "e", "i", "f">> }

ValidImage(e) ==
  e.kind = "file" /\ e.content \in {"RGB", "RGBA"} /\ suffix(e.name) \in HeifSuffixes

\* C1: once run has returned for an existing source directory and a FORMAT
\* of jpeg, jpg or png, the output directory holds one converted image for
\* every valid image of the source directory whose name matches *.heic or
\* *.heif, and when all the entries matched are valid images the errors list
\* is empty and the progress count is the number of images found.
C1_RunConvertsEveryImage ==
  (pc = "done" /\ fmt \in {"jpeg", "jpg", "png"}) =>
    /\ \A e \in listing :
         (glob_match(e.name) /\ ValidImage(e)) =>
           \E w \in outDir : w.src = e.name
    /\ (\A e \in listing : glob_match(e.name) => ValidImage(e)) =>
         /\ errors = <<>>
         /\ pbar = Cardinality({ e \in listing : glob_match(e.name) })

\* C2: HEIX(path) raises OSError when the path does not exist or is not a
\* regular file, ValueError when it is a regular file whose suffix is not
\* .heic or .heif, the checks running in the order existence, is-file,
\* suffix; in each of these cases nothing is passed to the decoder and
\* self.image is not set.
C2_InitRejects ==
  hpc \in {"ready", "raised"} =>
    /\ hpath.kind = "missing" =>
         hexc = [type |-> "OSError", msg |-> "does not exist"]
    /\ hpath.kind = "dir" =>
         hexc = [type |-> "OSError", msg |-> "is not a file"]
    /\ (hpath.kind = "file" /\ suffix(hpath.name) \notin HeifSuffixes) =>
         hexc.type = "ValueError"
    /\ (hpath.kind # "file" \/ suffix(hpath.name) \notin HeifSuffixes) =>
         /\ hpc = "raised"
         /\ decoded = <<>>
         /\ image = "unset"

\* a directory whose name has no HEIF suffix was rejected by the is-file
\* check, not by the suffix check
C2_Witness ==
  /\ hpc = "raised"
  /\ hpath.kind = "dir"
  /\ suffix(hpath.name) \notin HeifSuffixes
  /\ hexc.msg = "is not a file"

\* C3: every call of _save_as(name, fmt) with fmt one of jpg, jpeg, png
\* saves the image under name, and every call with another fmt raises
\* ValueError and writes nothing.
C3_SaveAsAcceptsJpgJpegPng ==
  [][ ncalls' = ncalls + 1 =>
        IF lastCall'.fmt \in {"jpg", "jpeg", "png"}
        THEN /\ lastCall'.exc = "none"
             /\ Len(written') = Len(written) + 1
             /\ written'[Len(written')].name = lastCall'.name
        ELSE /\ lastCall'.exc = "ValueError"
             /\ written' = written ]_vars

\* C5: a file saved as JPEG from an RGBA image is an RGB copy, every other
\* file saved has the mode of the decoded image, and self.image keeps the
\* decoded image's mode through every as_jpeg, as_jpg, as_png and _save_as
\* call (so a PNG saved after a JPEG still has its alpha channel).
C5_AlphaPolicy ==
  hpc = "ready" =>
    /\ image = hpath.content
    /\ \A i \in 1..Len(written) :
         written[i].mode =
           IF written[i].fmt = "JPEG" /\ hpath.content = "RGBA"
           THEN "RGB" ELSE hpath.content

\* an RGBA image saved as JPEG (an RGB copy) and then as PNG (with alpha)
C5_Witness ==
  /\ image = "RGBA"
  /\ Len(written) = 2
  /\ written[1].fmt = "JPEG" /\ written[1].mode = "RGB"
  /\ written[2].fmt = "PNG" /\ written[2].mode = "RGBA"

\* C4: run raises OSError for a missing source and ValueError for a source
\* that is not a directory, in both cases with no mkdir call made and
\* nothing submitted; for a source directory the output directory exists
\* from the end of the checks on, so before anything is submitted.
C4_RunChecksBeforeMkdir ==
  /\ (pc # "start" /\ srcKind = "missing") => runExc = "OSError"
  /\ (pc # "start" /\ srcKind = "file") => runExc = "ValueError"
  /\ (pc # "start" /\ srcKind = "dir") => runExc = "none"
  /\ runExc # "none" =>
       /\ pc = "raised"
       /\ mkdirCalls = 0
       /\ futures = <<>>
       /\ submitted = <<>>
  /\ pc \in {"checked", "pool", "done"} => dstExists
  /\ mkdirCalls <= 1
  /\ (\E e \in DOMAIN submitted : submitted[e] > 0) => dstExists

\* the output directory was missing, was made, and an image is submitted
C4_Witness ==
  /\ mkdirCalls = 1
  /\ dstExists
  /\ \E e \in DOMAIN submitted : submitted[e] = 1

\* C6: every image found is submitted at most once at any time and exactly
\* once by the time run returns; no exception leaves run once the pool is
\* entered; run is never stuck in the pool; and when run has returned each
\* image has either advanced the progress bar (its future returned) or is
\* in errors exactly once (its future raised), so the progress count plus
\* len(errors) is the number of images found.
C6_EveryImageAccountedOnce ==
  /\ \A e \in DOMAIN submitted : submitted[e] <= 1
  /\ pc \in {"pool", "done"} => runExc = "none"
  /\ pc = "pool" => ENABLED NextCLI
  /\ pc = "done" =>
       /\ DOMAIN futures = glob(listing)
       /\ \A e \in glob(listing) :
            /\ submitted[e] = 1
            /\ futures[e].state = "finished"
            /\ Cardinality({ i \in 1..Len(errors) : errors[i] = e.name }) =
                 IF futures[e].exc = "none" THEN 0 ELSE 1
       /\ pbar = Cardinality({ e \in glob(listing) : futures[e].exc = "none" })
       /\ pbar + Len(errors) = Cardinality(glob(listing))

\* run has returned after two workers raised different exceptions
C6_Witness ==
  /\ pc = "done"
  /\ Len(errors) >= 2
  /\ \E e1, e2 \in DOMAIN futures :
       /\ futures[e1].exc = "AttributeError"
       /\ futures[e2].exc \in {"OSError", "ValueError", "HeifError"}

====
